---- MODULE Spec2Model ----
(***************************************************************************)
(* Model of concept-weaver-backend/src/lib/queue.js: the in-memory job     *)
(* queue, the single-flight worker (enqueue / processNext / processJob),   *)
(* the status registry, the extraction dispatch and the generation stage.  *)
(*                                                                         *)
(* One action is one run-to-completion turn of the Node.js event loop: a   *)
(* call of enqueue, the firing of a processNext timer, or the resumption   *)
(* of processJob after one of its awaits.  The program's operations are    *)
(* written as operators from a state record to a state record, so that a   *)
(* turn that runs several of them (enqueue -> processNext -> processJob -> *)
(* catch -> finally) is their composition.                                 *)
(***************************************************************************)
EXTENDS Integers, Sequences, FiniteSets, TLC

VARIABLES
    statuses,       \* queue.js:13  registry: job id -> status record
    jobs,           \* queue.js:14  pending queue
    workerRunning,  \* queue.js:15  active-worker guard
    cohereClient,   \* queue.js:17  cached generation client: NoClient (null) or
                    \* the client made for the job of that submission number
    apiKey,         \* process.env.COHERE_API_KEY is set
    timers,         \* number of scheduled, not yet fired, processNext timers
    awaiting,       \* suspended processJob calls (one per await in flight)
    now,            \* last value read from the clock (new Date())
    submitted,      \* history: number of enqueue calls so far
    claimed,        \* history: [seq, id] of each job claimed, in the order of the claims
    ended,          \* history: [seq, id, status] of each terminal status written
    calls,          \* history: submission number -> capability calls made for it
    ev              \* history: what the last turn did

vars == <<statuses, jobs, workerRunning, cohereClient, apiKey, timers, awaiting,
          now, submitted, claimed, ended, calls, ev>>

-----------------------------------------------------------------------------
(* Bounds of the model *)

MaxJobs == 3        \* Spec: enqueue is called at most this many times
MaxJobJobs == 2     \* JobSpec: enqueue is called at most this many times
MaxPad == 1         \* JobSpec: leading / trailing whitespace of an extracted text
MaxLen == 6         \* ParseSpec: length of a graph-call response

(* Constants of the program *)

MinChars == 20      \* queue.js:122
FallbackLen == 163  \* trimmed length of the fallback template without the extension

Ids == {"a", "b"}

NotEnoughMsg == "Not enough readable text found in this file to generate a meaningful summary."
NoKeyMsg == "COHERE_API_KEY is not set in environment"
GenericMsg == "Processing failed"
ErrMessages == {"", "boom"}

-----------------------------------------------------------------------------
(* Strings are sequences of one-character strings. *)

Upper == {"P", "D", "F", "J", "G", "X", "T", "N", "E", "O", "C"}

ToLowerChar(c) ==
    CASE c = "P" -> "p" [] c = "D" -> "d" [] c = "F" -> "f" [] c = "J" -> "j"
      [] c = "G" -> "g" [] c = "X" -> "x" [] c = "T" -> "t" [] c = "N" -> "n"
      [] c = "E" -> "e" [] c = "O" -> "o" [] c = "C" -> "c" [] OTHER -> c

toLowerCase(str) == [i \in 1..Len(str) |-> ToLowerChar(str[i])]

startsWith(str, pre) ==
    Len(pre) <= Len(str) /\ SubSeq(str, 1, Len(pre)) = pre

endsWith(str, suf) ==
    Len(suf) <= Len(str) /\ SubSeq(str, Len(str) - Len(suf) + 1, Len(str)) = suf

\* 0-based index of the first / last occurrence of c, -1 when there is none
indexOf(str, c) ==
    IF \E i \in 1..Len(str) : str[i] = c
    THEN (CHOOSE i \in 1..Len(str) :
              str[i] = c /\ \A j \in 1..(i - 1) : str[j] # c) - 1
    ELSE -1

lastIndexOf(str, c) ==
    IF \E i \in 1..Len(str) : str[i] = c
    THEN (CHOOSE i \in 1..Len(str) :
              str[i] = c /\ \A j \in (i + 1)..Len(str) : str[j] # c) - 1
    ELSE -1

\* str.slice(from, to) for 0 <= to: characters from..to-1 (0-based); a negative
\* from counts from the end
slice(str, from, to) ==
    LET a == IF from < 0 THEN (IF Len(str) + from < 0 THEN 0 ELSE Len(str) + from)
             ELSE from
        b == IF to > Len(str) THEN Len(str) ELSE to
    IN IF b <= a THEN << >> ELSE SubSeq(str, a + 1, b)

IsSpace(c) == c = " "

\* str.trim()
trim(str) ==
    IF \A i \in 1..Len(str) : IsSpace(str[i]) THEN << >>
    ELSE LET a == CHOOSE i \in 1..Len(str) :
                      ~IsSpace(str[i]) /\ \A j \in 1..(i - 1) : IsSpace(str[j])
             b == CHOOSE i \in 1..Len(str) :
                      ~IsSpace(str[i]) /\ \A j \in (i + 1)..Len(str) : IsSpace(str[j])
         IN SubSeq(str, a, b)

-----------------------------------------------------------------------------
(* File references *)

Cwd == <<"/", "w">>

PdfFile == <<"/", "u", ".", "P", "D", "F">>
PptxFile == <<"u", ".", "p", "p", "t", "x">>
DocxFile == <<"u", ".", "d", "o", "c", "x">>
JpgFile == <<"u", ".", "J", "p", "g">>
TxtFile == <<"u", ".", "t", "x", "t">>
BareFile == <<"p", "d", "f">>

SavedLocations == {PdfFile, PptxFile, DocxFile, JpgFile, TxtFile, BareFile}

\* queue.js:57-59
relativePathOf(savedLocation) ==
    IF startsWith(savedLocation, <<"/">>)
    THEN slice(savedLocation, 1, Len(savedLocation))
    ELSE savedLocation

\* queue.js:61  path.join(process.cwd(), relativePath)
fullPathOf(savedLocation) == Cwd \o <<"/">> \o relativePathOf(savedLocation)

\* path.extname: from the last '.' of the base name, '' when the base name has
\* no '.' or only a leading one
extname(p) ==
    LET base == slice(p, lastIndexOf(p, "/") + 1, Len(p))
        dot == lastIndexOf(base, ".")
    IN IF dot <= 0 THEN << >> ELSE slice(base, dot, Len(base))

\* queue.js:62-119  which branch of the dispatch a path takes
Branch(savedLocation) ==
    LET ext == toLowerCase(fullPathOf(savedLocation))
    IN IF endsWith(ext, <<".", "p", "d", "f">>) THEN "pdf"
       ELSE IF endsWith(ext, <<".", "p", "p", "t", "x">>) THEN "pptx"
       ELSE IF endsWith(ext, <<".", "d", "o", "c", "x">>) THEN "docx"
       ELSE IF \/ endsWith(ext, <<".", "p", "n", "g">>)
               \/ endsWith(ext, <<".", "j", "p", "g">>)
               \/ endsWith(ext, <<".", "j", "p", "e", "g">>) THEN "image"
       ELSE "fallback"

\* queue.js:62-119  the branch each saved file takes
BranchOf == [loc \in SavedLocations |-> Branch(loc)]

-----------------------------------------------------------------------------
(* Extracted text.  Only its shape matters to the program: a text is       *)
(* `lead` whitespace characters, a `body` that starts and ends with a      *)
(* non-whitespace character, and `trail` whitespace characters.            *)

Text(l, b, t) == [lead |-> l, body |-> b, trail |-> t]
EmptyText == Text(0, 0, 0)
length(text) == text.lead + text.body + text.trail
trimLength(text) == text.body

BodyLens == {0, MinChars - 1, MinChars}

\* what an extraction capability can hand back in its text field: nothing
\* (undefined), or a text
NoText == [has |-> FALSE, text |-> EmptyText]
SomeText(text) == [has |-> TRUE, text |-> text]

CapabilityTexts ==
    {NoText} \cup
    {SomeText(Text(l, b, t)) : l \in 0..MaxPad, b \in BodyLens, t \in 0..MaxPad}

\* queue.js:70,102,108  data.text || ''
OrEmpty(r) == IF r.has THEN r.text ELSE EmptyText

fallbackText_bare(fullPath) == Text(0, Len(extname(fullPath)), 0)

\* queue.js:113-118  the fallback template
fallbackText(fullPath) == Text(1, FallbackLen + Len(extname(fullPath)), 1)

\* queue.js:112-118  the fallback text of each saved file
fallbackTextOf == [loc \in SavedLocations |-> fallbackText(fullPathOf(loc))]

TooShort_untrimmed(text) == length(text) = 0 \/ length(text) < MinChars

\* queue.js:122  !extractedText || extractedText.trim().length < 20
TooShort(text) == length(text) = 0 \/ trimLength(text) < MinChars

-----------------------------------------------------------------------------
(* JSON.parse, for the values a graph response can hold: objects, arrays,  *)
(* strings without escapes and unsigned integers.  A value is              *)
(* [type, items]: the members <<key, value>> of an object in insertion     *)
(* order, the elements of an array, the characters of a string, the        *)
(* digits of a number.                                                     *)

Digits == {"0", "1"}

JNull == [type |-> "null", items |-> << >>]
JFail == [ok |-> FALSE, pos |-> 0, val |-> JNull]
JOk(p, v) == [ok |-> TRUE, pos |-> p, val |-> v]

RECURSIVE SkipWs(_, _)
SkipWs(s, i) == IF i <= Len(s) /\ IsSpace(s[i]) THEN SkipWs(s, i + 1) ELSE i

ParseString(s, i) ==
    IF i > Len(s) \/ s[i] # "\"" THEN JFail
    ELSE IF ~\E j \in (i + 1)..Len(s) : s[j] = "\"" THEN JFail
    ELSE LET j == CHOOSE j \in (i + 1)..Len(s) :
                      s[j] = "\"" /\ \A k \in (i + 1)..(j - 1) : s[k] # "\""
         IN JOk(j + 1, [type |-> "string", items |-> SubSeq(s, i + 1, j - 1)])

RECURSIVE DigitsEnd(_, _)
DigitsEnd(s, i) == IF i <= Len(s) /\ s[i] \in Digits THEN DigitsEnd(s, i + 1) ELSE i

ParseNumber(s, i) ==
    IF i > Len(s) \/ s[i] \notin Digits THEN JFail
    ELSE LET j == IF s[i] = "0" THEN i + 1 ELSE DigitsEnd(s, i)
         IN JOk(j, [type |-> "number", items |-> SubSeq(s, i, j - 1)])

\* a later member with the same key replaces the earlier one's value
PutMember(ms, k, v) ==
    IF \E n \in 1..Len(ms) : ms[n][1] = k
    THEN [n \in 1..Len(ms) |-> IF ms[n][1] = k THEN <<k, v>> ELSE ms[n]]
    ELSE Append(ms, <<k, v>>)

RECURSIVE ParseValue(_, _), ParseMembers(_, _, _), ParseElements(_, _, _)

\* after '{' or ',': "key" : value, then ',' or '}'
ParseMembers(s, i, ms) ==
    LET k == ParseString(s, SkipWs(s, i))
    IN IF ~k.ok THEN JFail
       ELSE LET c == SkipWs(s, k.pos)
            IN IF c > Len(s) \/ s[c] # ":" THEN JFail
               ELSE LET v == ParseValue(s, c + 1)
                    IN IF ~v.ok THEN JFail
                       ELSE LET ms2 == PutMember(ms, k.val.items, v.val)
                                e == v.pos
                            IN IF e > Len(s) THEN JFail
                               ELSE IF s[e] = "}"
                                    THEN JOk(e + 1, [type |-> "object", items |-> ms2])
                               ELSE IF s[e] = ","
                                    THEN ParseMembers(s, e + 1, ms2)
                               ELSE JFail

\* after '[' or ',': value, then ',' or ']'
ParseElements(s, i, es) ==
    LET v == ParseValue(s, i)
    IN IF ~v.ok THEN JFail
       ELSE LET es2 == Append(es, v.val)
                e == v.pos
            IN IF e > Len(s) THEN JFail
               ELSE IF s[e] = "]" THEN JOk(e + 1, [type |-> "array", items |-> es2])
               ELSE IF s[e] = "," THEN ParseElements(s, e + 1, es2)
               ELSE JFail

\* a value with the whitespace around it; pos is the first position after it
ParseValue(s, i) ==
    LET a == SkipWs(s, i)
        r == IF a > Len(s) THEN JFail
             ELSE IF s[a] = "{"
                  THEN LET b == SkipWs(s, a + 1)
                       IN IF b <= Len(s) /\ s[b] = "}"
                          THEN JOk(b + 1, [type |-> "object", items |-> << >>])
                          ELSE ParseMembers(s, a + 1, << >>)
             ELSE IF s[a] = "["
                  THEN LET b == SkipWs(s, a + 1)
                       IN IF b <= Len(s) /\ s[b] = "]"
                          THEN JOk(b + 1, [type |-> "array", items |-> << >>])
                          ELSE ParseElements(s, a + 1, << >>)
             ELSE IF s[a] = "\"" THEN ParseString(s, a)
             ELSE ParseNumber(s, a)
    IN IF r.ok THEN JOk(SkipWs(s, r.pos), r.val) ELSE JFail

\* JSON.parse(str): the value, or a SyntaxError
JSONparse(str) ==
    LET r == ParseValue(str, 1)
    IN IF r.ok /\ r.pos = Len(str) + 1
       THEN [ok |-> TRUE, val |-> r.val]
       ELSE [ok |-> FALSE, val |-> JNull]

\* queue.js:206 with the end index one short
jsonSlice_short(raw, start, end) == slice(raw, start, end)

\* queue.js:206  raw.slice(start, end + 1)
jsonSlice(raw, start, end) == slice(raw, start, end + 1)

\* queue.js:203  start === -1 || end === -1
noBoundaries(start, end) == start = -1 \/ end = -1

\* queue.js:198-210  the graph response (its text field: [has, text]) to
\* conceptMap; `parsed` tells whether JSON.parse was reached and `jsonString`
\* what it was given
parseConceptMap(res) ==
    IF ~res.has
    THEN [conceptMap |-> JNull, parsed |-> FALSE, jsonString |-> << >>]
    ELSE LET raw == trim(res.text)
             start == indexOf(raw, "{")
             end == lastIndexOf(raw, "}")
         IN IF noBoundaries(start, end)
            THEN [conceptMap |-> JNull, parsed |-> FALSE, jsonString |-> << >>]
            ELSE LET jsonString == jsonSlice(raw, start, end)
                     p == JSONparse(jsonString)
                 IN [conceptMap |-> IF p.ok THEN p.val ELSE JNull,
                     parsed |-> TRUE, jsonString |-> jsonString]

-----------------------------------------------------------------------------
(* Presentation archives.  The entry 'ppt/slides/slide<k>.xml' is the      *)
(* number k; Array.prototype.sort orders the names as strings, which for   *)
(* these names is the order of the decimal digit strings (the '.' that     *)
(* follows the digits is smaller than every digit).                        *)

SlideNos == {2, 10}
CleanLens == {0, 3}

RECURSIVE decimal(_)
decimal(k) == IF k < 10 THEN <<k>> ELSE Append(decimal(k \div 10), k % 10)

RECURSIVE lexLess(_, _)
lexLess(a, b) ==
    IF Len(a) = 0 THEN Len(b) > 0
    ELSE IF Len(b) = 0 THEN FALSE
    ELSE IF a[1] # b[1] THEN a[1] < b[1]
    ELSE lexLess(Tail(a), Tail(b))

nameLess(j, k) == lexLess(decimal(j), decimal(k))

\* queue.js:78-80  the slide entries, sorted by name
RECURSIVE sortNames(_)
sortNames(ks) ==
    IF ks = {} THEN << >>
    ELSE LET m == CHOOSE m \in ks : \A k \in ks \ {m} : nameLess(m, k)
         IN <<m>> \o sortNames(ks \ {m})

\* queue.js:91  the length of `Slide ${i + 1}: ${cleaned}\n\n`
blockLength(n, cleanLen) == 6 + Len(decimal(n)) + 2 + cleanLen + 2

RECURSIVE sumLengths(_)
sumLengths(blocks) ==
    IF blocks = << >> THEN 0
    ELSE blockLength(blocks[1][1], blocks[1][2]) + sumLengths(Tail(blocks))

\* queue.js:82-95  the text built from the blocks <<n, length of cleaned>>:
\* every block ends with two newlines, and cleaned is trimmed and non-empty
slidesText(blocks) ==
    IF blocks = << >> THEN EmptyText
    ELSE Text(0, sumLengths(blocks) - 2, 2)

-----------------------------------------------------------------------------
(* The program state as one record, and the program's functions on it.     *)
(* `in` is what the environment decides during a turn: the clock value     *)
(* read (date), whether fs.readFileSync throws (fs) and with what (err).   *)

\* F applied to the value of v: v is evaluated once, whatever use F makes of it
Then(v, F(_)) == CHOOSE r \in {F(x) : x \in {v}} : TRUE

\* queue.js:17  let cohereClient = null
NoClient == 0

NoEvent ==
    [op |-> "none", seq |-> 0, id |-> "", loc |-> << >>, threw |-> FALSE, err |-> "",
     extracted |-> FALSE, text |-> EmptyText, clean |-> 0, client |-> NoClient,
     graph |-> [has |-> FALSE, text |-> << >>], parsed |-> FALSE,
     jsonString |-> << >>, conceptMap |-> JNull, summary |-> ""]

Job(id, savedLocation, seq) == [id |-> id, savedLocation |-> savedLocation, seq |-> seq]

\* a suspended call of processJob: where it waits (pc) and its locals
Cont(job, pc, extractedText, summary, slideFiles, i, text) ==
    [job |-> job, pc |-> pc, extractedText |-> extractedText, summary |-> summary,
     slideFiles |-> slideFiles, i |-> i, text |-> text]

Suspend(s, job, pc, call, extractedText, summary, slideFiles, i, text) ==
    [s EXCEPT !.awaiting = @ \cup
                  {Cont(job, pc, extractedText, summary, slideFiles, i, text)},
              !.calls[job.seq] = @ \cup {call}]

Merge_replace(old, fields) == fields

\* { ...old, ...fields }
Merge(old, fields) ==
    [f \in DOMAIN old \cup DOMAIN fields |->
        IF f \in DOMAIN fields THEN fields[f] ELSE old[f]]

\* queue.js:44-48, 212-220, 223-227  statuses[id] = { ...(statuses[id] || {}), ... }
upsert(st, id, fields) ==
    [i \in DOMAIN st \cup {id} |->
        IF i = id
        THEN Merge(IF id \in DOMAIN st THEN st[id] ELSE << >>, fields)
        ELSE st[i]]

markProcessing_skip(st, id, date) == st

markProcessing_nullResult(st, id, date) ==
    upsert(st, id, [status |-> "processing", startedAt |-> date, result |-> JNull])

\* queue.js:44-48
markProcessing(st, id, date) ==
    upsert(st, id, [status |-> "processing", startedAt |-> date])

finally_noTimer(s) == [s EXCEPT !.workerRunning = FALSE]

finally_timerWhenMany(s) ==
    [s EXCEPT !.workerRunning = FALSE,
              !.timers = IF Len(s.jobs) > 1 THEN @ + 1 ELSE @]

finally_alwaysTimer(s) == [s EXCEPT !.workerRunning = FALSE, !.timers = @ + 1]

\* queue.js:228-231
finally(s0) ==
    Then(s0, LAMBDA s :
        [s EXCEPT !.workerRunning = FALSE,
                  !.timers = IF Len(s.jobs) > 0 THEN @ + 1 ELSE @])

errorMessage_raw(err) == err.message

\* queue.js:226  err.message || 'Processing failed'
errorMessage(err) == IF err.message = "" THEN GenericMsg ELSE err.message

\* queue.js:221-231  an error thrown inside the try block of processJob
catch(s, job, err) ==
    finally([s EXCEPT
        !.statuses = upsert(@, job.id,
                            [status |-> "error", message |-> errorMessage(err)]),
        !.ended = Append(@, [seq |-> job.seq, id |-> job.id, status |-> "error"]),
        !.ev.threw = TRUE, !.ev.err = err.message])

\* queue.js:212-220, 228-231  the successful end of processJob
done(s, job, summary, conceptMap, date) ==
    finally([s EXCEPT
        !.statuses = upsert(@, job.id,
                            [status |-> "done", finishedAt |-> date,
                             result |-> [summary |-> summary,
                                         conceptMap |-> conceptMap]]),
        !.now = date,
        !.ended = Append(@, [seq |-> job.seq, id |-> job.id, status |-> "done"])])

\* queue.js:25  new CohereClient({ token: key }), made while the job of
\* submission number seq is processed
NewClient(seq) == seq

initCohere_fresh(s0) ==
    Then(s0, LAMBDA s :
        IF ~s.apiKey
        THEN [threw |-> TRUE, s |-> s, client |-> NoClient]
        ELSE [threw |-> FALSE, s |-> [s EXCEPT !.cohereClient = NewClient(s.ev.seq)],
              client |-> NewClient(s.ev.seq)])

\* queue.js:19-29
initCohere(s0) ==
    Then(s0, LAMBDA s :
        IF s.cohereClient = NoClient
        THEN IF ~s.apiKey
             THEN [threw |-> TRUE, s |-> s, client |-> NoClient]
             ELSE [threw |-> FALSE, s |-> [s EXCEPT !.cohereClient = NewClient(s.ev.seq)],
                   client |-> NewClient(s.ev.seq)]
        ELSE [threw |-> FALSE, s |-> s, client |-> s.cohereClient])

\* queue.js:121-161  from the guard to the await of the summary call
generation(s0, job, text) ==
    Then(text, LAMBDA extractedText :
        Then([s0 EXCEPT !.ev.extracted = TRUE, !.ev.text = extractedText], LAMBDA s :
            IF TooShort(extractedText)
            THEN catch(s, job, [message |-> NotEnoughMsg])
            ELSE Then(initCohere([s EXCEPT !.calls[job.seq] = @ \cup {"initCohere"}]),
                      LAMBDA c :
                          IF c.threw
                          THEN catch(c.s, job, [message |-> NoKeyMsg])
                          ELSE Suspend([c.s EXCEPT !.ev.client = c.client],
                                       job, "summary", "summary",
                                       extractedText, "", << >>, 0, << >>))))

\* queue.js:53-119  processJob up to its first await (or to its end, when it
\* has none)
processJob(s0, job, in) ==
    Then([s0 EXCEPT !.ev.seq = job.seq, !.ev.id = job.id,
                    !.ev.loc = job.savedLocation], LAMBDA s :
        Then(BranchOf[job.savedLocation], LAMBDA branch :
            LET read == [s EXCEPT !.calls[job.seq] = @ \cup {"readFileSync"}]
            IN CASE branch = "pdf" ->
                        IF in.fs = "throw" THEN catch(read, job, [message |-> in.err])
                        ELSE Suspend(read, job, "pdf", "pdfParse",
                                     EmptyText, "", << >>, 0, << >>)
                 [] branch = "pptx" ->
                        IF in.fs = "throw" THEN catch(read, job, [message |-> in.err])
                        ELSE Suspend(read, job, "zip", "loadAsync",
                                     EmptyText, "", << >>, 0, << >>)
                 [] branch = "docx" ->
                        IF in.fs = "throw" THEN catch(read, job, [message |-> in.err])
                        ELSE Suspend(read, job, "docx", "extractRawText",
                                     EmptyText, "", << >>, 0, << >>)
                 [] branch = "image" ->
                        Suspend(s, job, "ocr", "recognize", EmptyText, "", << >>, 0, << >>)
                 [] OTHER -> generation(s, job, fallbackTextOf[job.savedLocation])))

\* the calls history keeps the jobs that have not ended and the last that did
forget(cs, endedSeq) ==
    [n \in DOMAIN cs |->
        IF \E k \in 1..(Len(endedSeq) - 1) : endedSeq[k].seq = n THEN {} ELSE cs[n]]

workerBusy_never(s) == FALSE

workerBusy_emptyQueueOnly(s) == s.workerRunning /\ Len(s.jobs) = 0

\* queue.js:37
workerBusy(s) == s.workerRunning

shift_pop(js) == [job |-> js[Len(js)], rest |-> SubSeq(js, 1, Len(js) - 1)]

shift_peek(js) == [job |-> Head(js), rest |-> js]

\* queue.js:38  jobs.shift() on a non-empty array
shift(js) == [job |-> Head(js), rest |-> Tail(js)]

\* queue.js:36-51
processNext(s0, in) ==
    Then(s0, LAMBDA s :
        IF workerBusy(s) THEN s
        ELSE IF Len(s.jobs) = 0 THEN s
        ELSE Then(shift(s.jobs), LAMBDA sh :
                 processJob(
                     [s EXCEPT
                         !.jobs = sh.rest,
                         !.workerRunning = TRUE,
                         !.statuses = markProcessing(@, sh.job.id, in.date),
                         !.now = in.date,
                         !.claimed = Append(@, [seq |-> sh.job.seq, id |-> sh.job.id]),
                         !.calls = forget(@, s.ended)],
                     sh.job, in)))

enqueue_queued(s, job, in) ==
    processNext([s EXCEPT !.jobs = Append(@, job),
                          !.statuses = upsert(@, job.id, [status |-> "queued"])], in)

enqueue_front(s, job, in) == processNext([s EXCEPT !.jobs = <<job>> \o @], in)

\* queue.js:31-34
enqueue(s, job, in) == processNext([s EXCEPT !.jobs = Append(@, job)], in)

appendBlock_always(text, i, cleanLen) == Append(text, <<i + 1, cleanLen>>)

\* queue.js:90-92  if (cleaned) text += `Slide ${i + 1}: ${cleaned}\n\n`
appendBlock(text, i, cleanLen) ==
    IF cleanLen > 0 THEN Append(text, <<i + 1, cleanLen>>) ELSE text

\* queue.js:83-95  the slide loop from index i on, up to its next await
slideLoop(s, c, i, text) ==
    IF i < Len(c.slideFiles)
    THEN Suspend(s, c.job, "slide", "slide", EmptyText, "", c.slideFiles, i, text)
    ELSE generation(s, c.job, slidesText(text))

\* queue.js:198-220 with the inner catch rethrowing
graphStage_fatal(s, job, summary, res, date) ==
    Then(parseConceptMap(res), LAMBDA p :
        Then([s EXCEPT !.ev.graph = res, !.ev.parsed = p.parsed,
                       !.ev.jsonString = p.jsonString,
                       !.ev.conceptMap = p.conceptMap, !.ev.summary = summary],
             LAMBDA s1 :
                 IF p.conceptMap = JNull
                 THEN catch(s1, job, [message |-> "No JSON boundaries found"])
                 ELSE done(s1, job, summary, p.conceptMap, date)))

\* queue.js:198-220  from the graph call's return to the done record
graphStage(s, job, summary, res, date) ==
    Then(parseConceptMap(res), LAMBDA p :
        done([s EXCEPT !.ev.graph = res, !.ev.parsed = p.parsed,
                       !.ev.jsonString = p.jsonString,
                       !.ev.conceptMap = p.conceptMap, !.ev.summary = summary],
             job, summary, p.conceptMap, date))

-----------------------------------------------------------------------------
(* Inputs of the environment.  A profile names the values the environment  *)
(* draws from: Spec follows several jobs through the queue with few        *)
(* values each, JobSpec follows few jobs with every value.                 *)

SummaryTexts == {"S1", "S2"}

GraphChars == {"{", "}", "\"", ":", "1", " "}

Defined(str) == [has |-> TRUE, text |-> str]
Undefined == [has |-> FALSE, text |-> << >>]

NoBrace == Defined(<<"1">>)
ObjectInText == Defined(<<" ", "1", "{", "}", "1">>)

\* no brace, braces in the wrong order, an object inside text, an object
\* with a member, an object cut short, no text
GraphResponses ==
    { NoBrace,
      Defined(<<"}", "{">>),
      ObjectInText,
      Defined(<<"{", "\"", "\"", ":", "1", "}">>),
      Defined(<<"{", "\"", "}">>),
      Undefined }

\* every graph response of at most MaxLen characters
AllResponses ==
    {Undefined} \cup
    {Defined(str) : str \in UNION {[1..n -> GraphChars] : n \in 0..MaxLen}}

QueueProfile ==
    [maxJobs |-> MaxJobs,
     ids |-> Ids,
     locations |-> {PdfFile, PptxFile, TxtFile},
     texts |-> {NoText, SomeText(Text(1, MinChars - 1, 1)), SomeText(Text(0, MinChars, 0))},
     zips |-> {{}, SlideNos},
     cleans |-> CleanLens,
     summaries |-> {"S1"},
     responses |-> {NoBrace, ObjectInText}]

JobProfile ==
    [maxJobs |-> MaxJobJobs,
     ids |-> Ids,
     locations |-> SavedLocations,
     texts |-> CapabilityTexts,
     zips |-> SUBSET SlideNos,
     cleans |-> CleanLens,
     summaries |-> SummaryTexts,
     responses |-> GraphResponses]

\* one job that reaches the graph call, and every response to it
ParseProfile ==
    [maxJobs |-> 1,
     ids |-> {"a"},
     locations |-> {TxtFile},
     texts |-> {NoText},
     zips |-> {{}},
     cleans |-> {0},
     summaries |-> SummaryTexts,
     responses |-> AllResponses]

\* several jobs through the queue, one returned value per successful call
LiveProfile ==
    [maxJobs |-> MaxJobs,
     ids |-> Ids,
     locations |-> {PdfFile, PptxFile, TxtFile},
     texts |-> {SomeText(Text(0, MinChars, 0))},
     zips |-> {SlideNos},
     cleans |-> {3},
     summaries |-> {"S1"},
     responses |-> {NoBrace}]

\* the clock moves on between two reads
Dates == {now + 1}

Inputs == [date : Dates, fs : {"ok", "throw"}, err : ErrMessages]

-----------------------------------------------------------------------------
(* Turns of the event loop *)

\* the state at the start of a turn
Begin(op) ==
    [statuses |-> statuses, jobs |-> jobs, workerRunning |-> workerRunning,
     cohereClient |-> cohereClient, apiKey |-> apiKey, timers |-> timers,
     awaiting |-> awaiting, now |-> now, claimed |-> claimed, ended |-> ended,
     calls |-> calls, ev |-> [NoEvent EXCEPT !.op = op]]

\* the state at the start of the turn that resumes the suspended call c
Resume(op, c) ==
    [Begin(op) EXCEPT !.awaiting = @ \ {c}, !.ev.seq = c.job.seq, !.ev.id = c.job.id,
                      !.ev.loc = c.job.savedLocation]

\* the state at the end of a turn
Commit(s) ==
    /\ statuses' = s.statuses
    /\ jobs' = s.jobs
    /\ workerRunning' = s.workerRunning
    /\ cohereClient' = s.cohereClient
    /\ apiKey' = s.apiKey
    /\ timers' = s.timers
    /\ awaiting' = s.awaiting
    /\ now' = s.now
    /\ claimed' = s.claimed
    /\ ended' = s.ended
    /\ calls' = s.calls
    /\ ev' = s.ev

\* a turn that ends in state s
Turn(s0) == \E s \in {s0} : Commit(s)

\* a caller submits a job
Enqueue(P) ==
    /\ submitted < P.maxJobs
    /\ \E id \in P.ids, loc \in P.locations, in \in Inputs :
          Turn(enqueue(Begin("enqueue"), Job(id, loc, submitted + 1), in))
    /\ submitted' = submitted + 1

\* queue.js:230  a timer set by setTimeout(processNext, 100) fires
TimerFire ==
    /\ timers > 0
    /\ \E in \in Inputs :
          Turn(processNext([Begin("timer") EXCEPT !.timers = @ - 1], in))
    /\ UNCHANGED submitted

\* queue.js:69-70, 101-102, 107-108  pdfParse, extractRawText or recognize returns
ExtractReturn(P) ==
    /\ \E c \in awaiting, r \in P.texts :
          /\ c.pc \in {"pdf", "docx", "ocr"}
          /\ Turn(generation(Resume("extractReturn", c), c.job, OrEmpty(r)))
    /\ UNCHANGED submitted

\* queue.js:76-84  JSZip.loadAsync returns the archive
ZipReturn(P) ==
    /\ \E c \in awaiting, ks \in P.zips :
          /\ c.pc = "zip"
          /\ Turn(slideLoop(Resume("zipReturn", c),
                              [c EXCEPT !.slideFiles = sortNames(ks)], 0, << >>))
    /\ UNCHANGED submitted

\* queue.js:84-93  a slide's XML returns; cl is the length of its cleaned text
SlideReturn(P) ==
    /\ \E c \in awaiting, cl \in P.cleans :
          /\ c.pc = "slide"
          /\ Turn(slideLoop([Resume("slideReturn", c) EXCEPT !.ev.clean = cl],
                              c, c.i + 1, appendBlock(c.text, c.i, cl)))
    /\ UNCHANGED submitted

\* queue.js:131-196  the summary call returns, the graph call is issued
SummaryReturn(P) ==
    /\ \E c \in awaiting, t \in P.summaries :
          /\ c.pc = "summary"
          /\ Turn(Suspend([Resume("summaryReturn", c) EXCEPT !.ev.summary = t],
                            c.job, "graph", "graph",
                            c.extractedText, t, << >>, 0, << >>))
    /\ UNCHANGED submitted

\* queue.js:192-231  the graph call returns
GraphReturn(P) ==
    /\ \E c \in awaiting, res \in P.responses, date \in Dates :
          /\ c.pc = "graph"
          /\ Turn(graphStage(Resume("graphReturn", c), c.job, c.summary, res, date))
    /\ UNCHANGED submitted

\* any awaited capability call rejects
AwaitThrow ==
    /\ \E c \in awaiting, m \in ErrMessages :
          Turn(catch(Resume("awaitThrow", c), c.job, [message |-> m]))
    /\ UNCHANGED submitted

Init ==
    /\ statuses = << >>
    /\ jobs = << >>
    /\ workerRunning = FALSE
    /\ cohereClient = NoClient
    /\ apiKey \in BOOLEAN
    /\ timers = 0
    /\ awaiting = {}
    /\ now = 0
    /\ submitted = 0
    /\ claimed = << >>
    /\ ended = << >>
    /\ calls = [n \in 1..(MaxJobs + MaxJobJobs) |-> {}]
    /\ ev = NoEvent

NextOf(P) ==
    \/ Enqueue(P)
    \/ TimerFire
    \/ ExtractReturn(P)
    \/ ZipReturn(P)
    \/ SlideReturn(P)
    \/ SummaryReturn(P)
    \/ GraphReturn(P)
    \/ AwaitThrow

Next == NextOf(QueueProfile)

Spec == Init /\ [][Next]_vars

JobNext == NextOf(JobProfile)

JobSpec == Init /\ [][JobNext]_vars

\* one job on the fallback branch: the summary call and the graph call
ParseNext ==
    \/ Enqueue(ParseProfile)
    \/ SummaryReturn(ParseProfile)
    \/ GraphReturn(ParseProfile)
    \/ AwaitThrow

ParseSpec == Init /\ [][ParseNext]_vars

\* the awaited capability calls answer
Respond(P) ==
    \/ ExtractReturn(P)
    \/ ZipReturn(P)
    \/ SlideReturn(P)
    \/ SummaryReturn(P)
    \/ GraphReturn(P)
    \/ AwaitThrow

\* every capability call returns or throws, every timer fires
LiveNext == NextOf(LiveProfile)

LiveSpec ==
    Init /\ [][LiveNext]_vars /\ WF_vars(TimerFire) /\ WF_vars(Respond(LiveProfile))

-----------------------------------------------------------------------------
(* Vocabulary of the properties *)

Range(f) == {f[i] : i \in DOMAIN f}

ClaimedSeqs == {claimed[i].seq : i \in DOMAIN claimed}
EndedSeqs == {ended[i].seq : i \in DOMAIN ended}
PendingSeqs == {jobs[i].seq : i \in DOMAIN jobs}

\* claimed by processNext and not yet written to a terminal status
ActiveJobs == ClaimedSeqs \ EndedSeqs

HasRecord(id) == id \in DOMAIN statuses
StatusOf(id) == IF HasRecord(id) THEN statuses[id].status ELSE "absent"
Terminal(id) == StatusOf(id) \in {"done", "error"}

-----------------------------------------------------------------------------
\* C1: in every reachable state at most one job is active (claimed and not
\* yet written to a terminal status), and a turn that starts with
\* workerRunning true claims no job.
C1_SingleFlight ==
    /\ [](Cardinality(ActiveJobs) <= 1)
    /\ [][workerRunning => claimed' = claimed]_vars

\* a job is active, another waits, and a timer set by an earlier completion
\* has not fired yet
C1_Witness ==
    /\ workerRunning
    /\ Cardinality(ActiveJobs) = 1
    /\ Len(jobs) >= 1
    /\ timers >= 1

\* C2: jobs are claimed in the order of their submission, none is skipped,
\* a job is claimed only after every job submitted before it has ended, and
\* the record of a job that is suspended in processJob says processing.
C2_Fifo ==
    /\ \A i \in DOMAIN claimed : claimed[i].seq = i
    /\ \A n \in ClaimedSeqs : \A m \in 1..(n - 1) : m \in EndedSeqs
    /\ \A c \in awaiting : StatusOf(c.job.id) = "processing"

\* an enqueue call that arrived between a release and the firing of the
\* drain timer claimed the older pending job, not the one it brought
C2_Witness ==
    /\ ev.op = "enqueue"
    /\ timers >= 1
    /\ ev.seq # 0 /\ ev.seq < submitted
    /\ Len(claimed) >= 2
    /\ claimed[Len(claimed)].seq = ev.seq

\* C3: no job is claimed twice, a claimed job is no longer in the pending
\* queue, and every submitted job is either pending or claimed.
C3_ClaimedOnce ==
    /\ \A i, j \in DOMAIN claimed : i # j => claimed[i].seq # claimed[j].seq
    /\ ClaimedSeqs \cap PendingSeqs = {}
    /\ ClaimedSeqs \cup PendingSeqs = 1..submitted
    /\ \A i, j \in DOMAIN jobs : i # j => jobs[i].seq # jobs[j].seq

\* three jobs were submitted; two were claimed and the third still waits
C3_Witness ==
    /\ submitted = 3
    /\ Len(claimed) = 2
    /\ Len(jobs) = 1
    /\ Len(ended) = 1

\* C4: under LiveSpec (every awaited call returns or throws, every timer
\* fires) every submitted job is eventually ended, with the record of its id
\* saying done or error, whatever is queued ahead of it or behind it.
C4_EveryJobEnds ==
    \A n \in 1..MaxJobs :
        (submitted >= n) ~>
            (\E i \in DOMAIN ended :
                /\ ended[i].seq = n
                /\ StatusOf(ended[i].id) \in {"done", "error"})

\* three jobs have ended, the last of them after waiting behind the others
C4_Witness ==
    /\ Len(ended) = 3
    /\ jobs = << >>
    /\ ~workerRunning
    /\ \A i \in DOMAIN ended : Terminal(ended[i].id)
    /\ \E i \in DOMAIN ended : ended[i].status = "done"

\* the turn in which a job failed left the record of its id at error with
\* the error's message (the generic one for an empty message) and released
\* the worker
FailureRecorded ==
    ev.threw =>
        /\ StatusOf(ev.id) = "error"
        /\ statuses[ev.id].message = (IF ev.err = "" THEN GenericMsg ELSE ev.err)
        /\ ~workerRunning

\* C5: a job that throws ends as error with the error's message (or the
\* generic message), the worker flag is released in the same turn, and,
\* under LiveSpec, every job pending at that moment is ended later.
C5_FailureContained ==
    /\ []FailureRecorded
    /\ \A n \in 1..MaxJobs :
          (ev.threw /\ n \in PendingSeqs) ~> (n \in EndedSeqs)

\* a job failed with an empty message while another was pending, and the
\* pending one was processed to done afterwards
C5_Witness ==
    /\ Len(ended) >= 2
    /\ ended[1].status = "error"
    /\ ended[2].status = "done"
    /\ ended[1].id # ended[2].id
    /\ statuses[ended[1].id].message = GenericMsg
    /\ statuses[ended[2].id].status = "done"

StatusIn(st, id) == IF id \in DOMAIN st THEN st[id].status ELSE "absent"

\* the submissions claimed so far under the id
ClaimsOf(id) == {i \in DOMAIN claimed : claimed[i].id = id}

\* this turn claimed a job submitted under the id
ClaimedNow(id) ==
    /\ Len(claimed') = Len(claimed) + 1
    /\ claimed'[Len(claimed')].id = id

\* C6 as stated: a record is never removed, a processing record stays or
\* becomes done or error, and the status of a done or error record never
\* changes again, whatever ids the callers submit.  (A turn may take a
\* record from absent through processing to error before anyone can look.)
C6_TerminalAbsorbing ==
    [][\A id \in Ids :
          /\ HasRecord(id) => id \in DOMAIN statuses'
          /\ StatusOf(id) = "processing" =>
                 StatusIn(statuses', id) \in {"processing", "done", "error"}
          /\ Terminal(id) => StatusIn(statuses', id) = StatusOf(id)]_vars

\* C6 amended: a record is never removed; a record appears, and a done or
\* error record changes its status, only in a turn that claims a job
\* submitted under that id, and a claim leaves the record at processing
\* unless the job fails within the same turn; a processing record stays or
\* becomes done or error.  So the status of an id that is submitted once
\* moves absent -> processing -> done or error and then rests.
C6_StateMachine ==
    [][\A id \in Ids :
          /\ HasRecord(id) => id \in DOMAIN statuses'
          /\ StatusOf(id) = "processing" =>
                 StatusIn(statuses', id) \in {"processing", "done", "error"}
          /\ (StatusOf(id) # "processing" /\ StatusIn(statuses', id) # StatusOf(id))
                 => ClaimedNow(id)
          /\ ClaimedNow(id) =>
                 \/ StatusIn(statuses', id) = "processing" /\ ended' = ended
                 \/ StatusIn(statuses', id) = "error" /\ Len(ended') = Len(ended) + 1]_vars

\* the record of an id whose first job ended done is back at processing,
\* claimed for a second job submitted under the same id
C6_Witness ==
    /\ Cardinality(ClaimsOf(ev.id)) = 2
    /\ StatusOf(ev.id) = "processing"
    /\ \E i \in DOMAIN ended : ended[i].id = ev.id /\ ended[i].status = "done"
    /\ claimed[Len(claimed)].seq = ev.seq

HasField(id, f) == f \in DOMAIN statuses[id]

EndedAs(id, status) == \E i \in DOMAIN ended : ended[i].id = id /\ ended[i].status = status

\* C7 as stated: a record holds result only when its status is done and
\* message only when its status is error.
C7_FieldsByStatus ==
    \A id \in DOMAIN statuses :
        /\ HasField(id, "result") => StatusOf(id) = "done"
        /\ HasField(id, "message") => StatusOf(id) = "error"

\* C7 amended: a record holds result exactly when a job of its id has ended
\* done and message exactly when a job of its id has ended error (the merge
\* at claim and at the end keeps the fields of earlier jobs of the id); so
\* the record of an id claimed once holds result only when done and message
\* only when error.
C7_FieldsByHistory ==
    \A id \in DOMAIN statuses :
        /\ HasField(id, "result") <=> EndedAs(id, "done")
        /\ HasField(id, "message") <=> EndedAs(id, "error")
        /\ StatusOf(id) = "done" => HasField(id, "result")
        /\ StatusOf(id) = "error" => HasField(id, "message")
        /\ Cardinality(ClaimsOf(id)) <= 1 =>
              /\ HasField(id, "result") => StatusOf(id) = "done"
              /\ HasField(id, "message") => StatusOf(id) = "error"

\* a record whose id served a failed job and then a successful one says done
\* and still holds the message of the failure
C7_Witness ==
    \E id \in DOMAIN statuses :
        /\ StatusOf(id) = "done"
        /\ HasField(id, "message")
        /\ HasField(id, "result")
        /\ Cardinality(ClaimsOf(id)) = 2

GenerationCalls == {"initCohere", "summary", "graph"}

\* C8: when the text extracted for a job has fewer than 20 characters once
\* trimmed (none included), the turn that extracted it ends the job as error
\* with the insufficient-content message, and neither initCohere nor the
\* summary call nor the graph call was made for the job, nor is any pending.
C8_MinContentGuard ==
    (ev.extracted /\ trimLength(ev.text) < MinChars) =>
        /\ StatusOf(ev.id) = "error"
        /\ statuses[ev.id].message = NotEnoughMsg
        /\ ended # << >>
        /\ ended[Len(ended)] = [seq |-> ev.seq, id |-> ev.id, status |-> "error"]
        /\ calls[ev.seq] \cap GenerationCalls = {}
        /\ \A c \in awaiting : c.job.seq # ev.seq

\* an extraction returned 20 characters or more of which fewer than 20 are
\* left by trim, and the job ended as error
C8_Witness ==
    /\ ev.op = "extractReturn"
    /\ ev.extracted
    /\ length(ev.text) >= MinChars
    /\ trimLength(ev.text) < MinChars
    /\ StatusOf(ev.id) = "error"
    /\ statuses[ev.id].message = NotEnoughMsg

\* the positions of the opening and of the closing braces of a text
Opens(str) == {i \in DOMAIN str : str[i] = "{"}
Closes(str) == {i \in DOMAIN str : str[i] = "}"}

Least(S) == CHOOSE i \in S : \A j \in S : i <= j
Greatest(S) == CHOOSE i \in S : \A j \in S : j <= i

\* the text from its first opening brace through its last closing brace
Braced(str) == SubSeq(str, Least(Opens(str)), Greatest(Closes(str)))

\* a graph response whose text has no '{', no '}', its last '}' before its
\* first '{', or between them something that JSON.parse rejects
BadGraph(res) ==
    /\ res.has
    /\ \/ Opens(res.text) = {}
       \/ Closes(res.text) = {}
       \/ Greatest(Closes(res.text)) < Least(Opens(res.text))
       \/ ~JSONparse(Braced(res.text)).ok

\* C9: when the graph call of a job returns a response without '{', without
\* '}', with the last '}' before the first '{', or whose slice does not
\* parse, the job ends in that turn as done, with result.summary the text
\* the summary call returned and result.conceptMap null, and not as error.
C9_GraphParseNonFatal ==
    [][\A c \in awaiting :
          (/\ c.pc = "graph"
           /\ ev'.op = "graphReturn"
           /\ ev'.seq = c.job.seq
           /\ BadGraph(ev'.graph))
          => /\ StatusIn(statuses', c.job.id) = "done"
             /\ statuses'[c.job.id].result = [summary |-> c.summary, conceptMap |-> JNull]
             /\ ~HasField(c.job.id, "message")'
             /\ ended' = Append(ended, [seq |-> c.job.seq, id |-> c.job.id,
                                        status |-> "done"])
             /\ ~ev'.threw]_vars

\* a response with a '{' and a later '}' whose slice JSON.parse rejects, and
\* the job done with its summary and a null conceptMap
C9_Witness ==
    /\ ev.op = "graphReturn"
    /\ ev.graph.has
    /\ \E i \in Opens(ev.graph.text), j \in Closes(ev.graph.text) : i < j
    /\ ~JSONparse(Braced(ev.graph.text)).ok
    /\ StatusOf(ev.id) = "done"
    /\ statuses[ev.id].result = [summary |-> "S2", conceptMap |-> JNull]

\* C10: when the graph response holds a '{' and a later '}', JSON.parse is
\* given exactly the text from the first '{' through the last '}', and when
\* it accepts that text the value it returns is stored as result.conceptMap,
\* whatever members it has or lacks.
C10_BoundaryExtraction ==
    (/\ ev.op = "graphReturn"
     /\ ev.graph.has
     /\ \E i \in Opens(ev.graph.text), j \in Closes(ev.graph.text) : i < j)
    => /\ ev.parsed
       /\ ev.jsonString = Braced(ev.graph.text)
       /\ JSONparse(Braced(ev.graph.text)).ok =>
             /\ StatusOf(ev.id) = "done"
             /\ statuses[ev.id].result.conceptMap = JSONparse(Braced(ev.graph.text)).val
             /\ statuses[ev.id].result.conceptMap # JNull

\* a response with text before the first '{' and after the last '}' gave an
\* object that has neither nodes nor edges, and that object is the conceptMap
C10_Witness ==
    /\ ev.op = "graphReturn"
    /\ ev.graph.has
    /\ Opens(ev.graph.text) # {} /\ Least(Opens(ev.graph.text)) > 1
    /\ Closes(ev.graph.text) # {} /\ Greatest(Closes(ev.graph.text)) < Len(ev.graph.text)
    /\ StatusOf(ev.id) = "done"
    /\ statuses[ev.id].result.conceptMap = [type |-> "object", items |-> << >>]

Suffixes ==
    { <<".", "p", "d", "f">>, <<".", "p", "p", "t", "x">>, <<".", "d", "o", "c", "x">>,
      <<".", "p", "n", "g">>, <<".", "j", "p", "g">>, <<".", "j", "p", "e", "g">> }

\* the name ends, whatever the case of its letters, with one of the suffixes
HasKnownSuffix(name) ==
    \E sfx \in Suffixes :
        /\ Len(name) >= Len(sfx)
        /\ \A k \in 1..Len(sfx) :
              ToLowerChar(name[Len(name) - Len(sfx) + k]) = sfx[k]

ExtractionCalls ==
    {"readFileSync", "pdfParse", "loadAsync", "slide", "extractRawText", "recognize"}

\* C11: for a job whose file name has none of the six suffixes, no file is
\* read and no extraction capability is called, the text that reaches the
\* guard has 20 characters or more once trimmed, the claim turn leaves the
\* job waiting for the summary call when the credential is set, the job
\* fails only by a missing credential or a rejected generation call, and
\* the return of the graph call ends it as done.
C11_FallbackNeverFails ==
    (ev.seq # 0 /\ ~HasKnownSuffix(ev.loc)) =>
        /\ calls[ev.seq] \cap ExtractionCalls = {}
        /\ ev.op \in {"enqueue", "timer"} =>
              /\ ev.extracted
              /\ trimLength(ev.text) >= MinChars
              /\ apiKey => /\ ~ev.threw
                           /\ \E c \in awaiting : c.job.seq = ev.seq /\ c.pc = "summary"
              /\ ~apiKey => ev.threw /\ ev.err = NoKeyMsg
        /\ ev.threw => ev.op = "awaitThrow" \/ (~apiKey /\ ev.err = NoKeyMsg)
        /\ ev.op = "summaryReturn" =>
              \E c \in awaiting : c.job.seq = ev.seq /\ c.pc = "graph"
        /\ ev.op = "graphReturn" =>
              /\ StatusOf(ev.id) = "done"
              /\ ended[Len(ended)] = [seq |-> ev.seq, id |-> ev.id, status |-> "done"]

\* a file named 'pdf', without a dot, went through both generation calls
\* and ended as done
C11_Witness ==
    /\ ev.op = "graphReturn"
    /\ ev.loc = BareFile
    /\ StatusOf(ev.id) = "done"
    /\ calls[ev.seq] = {"initCohere", "summary", "graph"}

\* C12: the slide entries of an archive are processed in the numeric order
\* of the slide numbers in their names: in the sorted list a suspended job
\* walks through, a smaller number always stands before a larger one.
C12_NumericOrder ==
    \A c \in awaiting :
        \A i, j \in DOMAIN c.slideFiles :
            i < j => c.slideFiles[i] < c.slideFiles[j]

\* the length of 'Slide <n>: <cleaned>' followed by two newlines
BlockChars(n, cleanLen) == Len(<<"S", "l", "i", "d", "e", " ">>) + (IF n < 10 THEN 1 ELSE 2)
                               + Len(<<":", " ">>) + cleanLen + 2

RECURSIVE TotalChars(_, _)
TotalChars(blocks, k) ==
    IF k = 0 THEN 0
    ELSE TotalChars(blocks, k - 1) + BlockChars(blocks[k][1], blocks[k][2])

\* the text that the blocks make, in their order: it ends with the two
\* newlines of the last block and has no other outer whitespace
TextOfBlocks(blocks) ==
    IF Len(blocks) = 0 THEN EmptyText
    ELSE Text(0, TotalChars(blocks, Len(blocks)) - 2, 2)

\* the blocks after the slide at 0-based position i of the sorted list
\* returned a cleaned text of cleanLen characters
BlocksAfter(blocks, i, cleanLen) ==
    IF cleanLen = 0 THEN blocks ELSE blocks \o << <<i + 1, cleanLen>> >>

\* C13: the return of the slide at position i of the name-sorted list adds
\* the one block 'Slide <i+1>: <cleaned>' after the blocks of the slides
\* before it when its cleaned text is not empty and adds nothing when it is
\* empty; the sorted list is left as it is, and after the last slide the
\* extracted text is the blocks in that order.
C13_SlideBlocks ==
    [][\A c \in awaiting :
          (c.pc = "slide" /\ ev'.op = "slideReturn" /\ ev'.seq = c.job.seq) =>
              IF c.i + 1 < Len(c.slideFiles)
              THEN \E d \in awaiting' :
                      /\ d.job = c.job /\ d.pc = "slide" /\ d.i = c.i + 1
                      /\ d.slideFiles = c.slideFiles
                      /\ d.text = BlocksAfter(c.text, c.i, ev'.clean)
              ELSE /\ ev'.extracted
                   /\ ev'.text = TextOfBlocks(BlocksAfter(c.text, c.i, ev'.clean))]_vars

\* the first entry of the sorted list is slide10.xml; its text became the
\* block numbered 1, and the job waits for slide2.xml
C13_Witness ==
    \E c \in awaiting :
        /\ c.pc = "slide"
        /\ c.slideFiles = <<10, 2>>
        /\ c.i = 1
        /\ c.text = << <<1, 3>> >>
        /\ ev.op = "slideReturn"

\* the turn took a job past the guard, to initCohere
ReachedGeneration(e) == e.extracted /\ length(e.text) > 0 /\ trimLength(e.text) >= MinChars

\* C14: the client is made only in a turn that takes a job to the
\* generation stage with the credential set; once made it is never made
\* again nor dropped, and every job that reaches generation afterwards gets
\* that same client; a job that reaches generation without the credential
\* ends as error with the missing-credential message and the cache stays
\* unset.
C14_LazyCachedInit ==
    [][/\ cohereClient # NoClient => cohereClient' = cohereClient
       /\ cohereClient' # cohereClient =>
             /\ ReachedGeneration(ev')
             /\ apiKey
             /\ "initCohere" \in calls'[ev'.seq]
       /\ (ReachedGeneration(ev') /\ apiKey) =>
             /\ cohereClient' # NoClient
             /\ ev'.client = cohereClient'
             /\ ~ev'.threw
       /\ (ReachedGeneration(ev') /\ ~apiKey) =>
             /\ ev'.threw
             /\ StatusIn(statuses', ev'.id) = "error"
             /\ statuses'[ev'.id].message = NoKeyMsg
             /\ cohereClient' = NoClient
             /\ ~workerRunning']_vars

\* the first job failed before generation, the second made the client, and
\* the third was handed the client made for the second
C14_Witness ==
    /\ ev.seq = 3
    /\ ev.extracted
    /\ ev.client = NewClient(2)
    /\ cohereClient = NewClient(2)
    /\ \E i \in DOMAIN ended : ended[i].seq = 1 /\ ended[i].status = "error"

\* C15: as long as the awaited call of the active job has not answered,
\* every turn (an enqueue call, a timer firing) leaves the job's record at
\* processing and workerRunning true, claims no job, takes no job out of
\* the pending queue and ends none: with no answer, for ever.
C15_HungCallStalls ==
    [][\A c \in awaiting :
          c \in awaiting' =>
              /\ ev'.op \in {"enqueue", "timer"}
              /\ workerRunning /\ workerRunning'
              /\ StatusOf(c.job.id) = "processing"
              /\ statuses' = statuses
              /\ claimed' = claimed
              /\ ended' = ended
              /\ awaiting' = awaiting
              /\ \/ jobs' = jobs
                 \/ \E j \in {jobs'[Len(jobs')]} : jobs' = Append(jobs, j)]_vars

\* during a hang one job waits in the queue, and a timer left over from an
\* earlier completion fired without claiming it
C15_Witness ==
    /\ awaiting # {}
    /\ workerRunning
    /\ ev.op = "timer"
    /\ ev.seq = 0
    /\ Len(jobs) >= 1
    /\ \A c \in awaiting : StatusOf(c.job.id) = "processing"

\* the id under which the job of submission number n was submitted
IdOf(n) ==
    IF \E i \in DOMAIN claimed : claimed[i].seq = n
    THEN claimed[CHOOSE i \in DOMAIN claimed : claimed[i].seq = n].id
    ELSE jobs[CHOOSE i \in DOMAIN jobs : jobs[i].seq = n].id

\* C16 as stated: after an enqueue call for a job whose id had no record,
\* the registry still has no record for that id, whatever the worker and
\* the queue were doing.
C16_NotFoundAfterEnqueue ==
    [][(ev'.op = "enqueue" /\ IdOf(submitted)' \notin DOMAIN statuses)
          => IdOf(submitted)' \notin DOMAIN statuses']_vars

\* C16 amended: after an enqueue call for a job whose id had no record, the
\* registry has no record for that id unless the call itself claimed a job
\* of that id.  While a worker is active the call claims nothing and leaves
\* the registry as it was; with the worker idle and nothing pending it
\* claims the submitted job before it returns, and the record then says
\* processing, or error when the job failed before its first await; with
\* the worker idle and older jobs pending it claims the oldest of them.
C16_NotFoundUnlessClaimed ==
    [][(ev'.op = "enqueue" /\ IdOf(submitted)' \notin DOMAIN statuses) =>
          /\ IdOf(submitted)' \notin DOMAIN statuses' <=> ~ClaimedNow(IdOf(submitted)')
          /\ workerRunning => claimed' = claimed /\ statuses' = statuses
          /\ (~workerRunning /\ jobs = << >>) =>
                /\ claimed' = Append(claimed, [seq |-> submitted', id |-> IdOf(submitted)'])
                /\ StatusIn(statuses', IdOf(submitted)') \in {"processing", "error"}
          /\ (~workerRunning /\ jobs # << >>) =>
                /\ claimed' = Append(claimed, [seq |-> Head(jobs).seq, id |-> Head(jobs).id])
                /\ jobs'[Len(jobs')].seq = submitted']_vars

\* a job was submitted to an idle worker under an id without a record, and
\* on return from enqueue the record of that id says processing
C16_Witness ==
    /\ ev.op = "enqueue"
    /\ ev.seq = submitted
    /\ submitted >= 2
    /\ Cardinality(ClaimsOf(ev.id)) = 1
    /\ StatusOf(ev.id) = "processing"

\* this turn wrote the terminal status `status` for a job of the id
EndedNow(id, status) ==
    /\ Len(ended') = Len(ended) + 1
    /\ ended'[Len(ended')].id = id
    /\ ended'[Len(ended')].status = status

\* the fields that the writes of this turn set in the record of the id
WrittenNow(id) ==
    (IF ClaimedNow(id) THEN {"status", "startedAt"} ELSE {}) \cup
    (IF EndedNow(id, "done") THEN {"status", "finishedAt", "result"} ELSE {}) \cup
    (IF EndedNow(id, "error") THEN {"status", "message"} ELSE {})

\* C17: no turn removes a record or a field of a record, and a field
\* changes its value only when a write of that turn sets it; so the
\* startedAt written when a job was claimed is in the job's done or error
\* record with the value it got at the claim.
C17_WritesMerge ==
    [][\A id \in DOMAIN statuses :
          /\ id \in DOMAIN statuses'
          /\ \A f \in DOMAIN statuses[id] :
                /\ f \in DOMAIN statuses'[id]
                /\ f \notin WrittenNow(id) => statuses'[id][f] = statuses[id][f]
          /\ (EndedNow(id, "done") \/ EndedNow(id, "error")) =>
                /\ "startedAt" \in DOMAIN statuses'[id]
                /\ ~ClaimedNow(id) =>
                      /\ "startedAt" \in DOMAIN statuses[id]
                      /\ statuses'[id].startedAt = statuses[id].startedAt]_vars

\* a done record that still holds the startedAt of its claim, earlier than
\* its finishedAt
C17_Witness ==
    /\ ev.op = "graphReturn"
    /\ StatusOf(ev.id) = "done"
    /\ HasField(ev.id, "startedAt")
    /\ HasField(ev.id, "finishedAt")
    /\ statuses[ev.id].startedAt < statuses[ev.id].finishedAt

\* the timers left once this turn's own timer, if it is a timer's turn, is
\* taken away
TimersLeft == IF ev'.op = "timer" THEN timers - 1 ELSE timers

\* C18: the turn in which a job ends releases workerRunning, claims no job
\* after the end and leaves the pending queue as it is; it schedules one
\* processNext timer when jobs are pending and none when the queue is
\* empty.  A job is claimed only in the turn of an enqueue call or of a
\* timer.
C18_AsyncDrain ==
    [][/\ ended' # ended =>
             /\ ~workerRunning'
             /\ Len(ended') = Len(ended) + 1
             /\ ended'[Len(ended')].seq = claimed'[Len(claimed')].seq
             /\ timers' = TimersLeft + (IF jobs' # << >> THEN 1 ELSE 0)
             /\ ev'.op \notin {"enqueue", "timer"} => claimed' = claimed /\ jobs' = jobs
       /\ ended' = ended => timers' = TimersLeft
       /\ claimed' # claimed =>
             /\ ev'.op \in {"enqueue", "timer"}
             /\ Len(claimed') = Len(claimed) + 1]_vars

\* a job has just ended with another pending: the worker is released, the
\* queue is not empty and the drain is a timer that has not fired yet
C18_Witness ==
    /\ ev.op = "graphReturn"
    /\ ~workerRunning
    /\ jobs # << >>
    /\ timers >= 1
    /\ ended # << >> /\ ended[Len(ended)].seq = ev.seq

\* what a turn that starts while a worker is active may not touch
ActiveFrame ==
    /\ statuses' = statuses
    /\ workerRunning' = workerRunning
    /\ cohereClient' = cohereClient
    /\ awaiting' = awaiting
    /\ claimed' = claimed
    /\ ended' = ended
    /\ calls' = calls

\* C19: while workerRunning is true, a timer's turn changes nothing but the
\* count of timers, and an enqueue call changes nothing but the pending
\* queue, which gets the submitted job at its tail.
C19_DrainNoOpWhenActive ==
    [][workerRunning =>
          /\ ev'.op = "timer" =>
                ActiveFrame /\ jobs' = jobs /\ timers' = timers - 1
          /\ ev'.op = "enqueue" =>
                /\ ActiveFrame
                /\ timers' = timers
                /\ Len(jobs') = Len(jobs) + 1
                /\ SubSeq(jobs', 1, Len(jobs)) = jobs
                /\ jobs'[Len(jobs')].seq = submitted']_vars

\* a second job was appended behind a pending one while a worker is active
C19_Witness ==
    /\ ev.op = "enqueue"
    /\ ev.seq = 0
    /\ workerRunning
    /\ Len(jobs) = 2
    /\ jobs[2].seq = submitted
    /\ awaiting # {}

\* C20: between turns, when workerRunning is false and jobs are pending, a
\* processNext timer is scheduled and has not fired yet.
C20_NoStrandedBacklog ==
    (~workerRunning /\ jobs # << >>) => timers >= 1

\* a timer claimed a job that failed before its first await while another
\* was pending: the worker is released and the drain is scheduled again
C20_Witness ==
    /\ ev.op = "timer"
    /\ ev.threw
    /\ ~workerRunning
    /\ jobs # << >>
    /\ timers >= 1

====
